---- MODULE Spec2Model ----
(***************************************************************************)
(* FitGenie backend: the behaviour-scoring core (rules.py), the plan and   *)
(* nudge policy (system_function.py), the document factories (models.py)   *)
(* and the request handlers of app.py that write the plans, sensordata and *)
(* recommendations collections.                                            *)
(*                                                                         *)
(* Time is counted in hours since the start of day 0 (ts, now); a calendar *)
(* date is the day number now \div 24, which orders as its ISO string.     *)
(* Scores are exact rationals <<num, den>> with den > 0; a score that the  *)
(* code rounds to two decimals is an integer number of hundredths.         *)
(***************************************************************************)
EXTENDS Integers, Sequences, FiniteSets, TLC

VARIABLES plans, sensordata, recommendations, now, last, inflight

vars == <<plans, sensordata, recommendations, now, last, inflight>>

Users == {"U1", "U2"}

Null == "null"

----------------------------------------------------------------------------
(* Values of a metric sample.  A JSON number is [t |-> "num"], a JSON      *)
(* string is [t |-> "str"].                                                *)

Num(n) == [t |-> "num", n |-> n, s |-> ""]

Str(s) == [t |-> "str", n |-> 0, s |-> s]

Ok(n) == [ok |-> TRUE, n |-> n]

ValueError == [ok |-> FALSE, n |-> 0]

\* Python float(value): a number converts, the string "72" parses, any other
\* string raises ValueError.
PyFloat(value) ==
    IF value.t = "num" THEN Ok(value.n)
    ELSE IF value.s = "72" THEN Ok(72)
    ELSE ValueError

\* Python int(value): a number converts, the string "72" parses, any other
\* string raises ValueError.
PyInt(value) ==
    IF value.t = "num" THEN Ok(value.n)
    ELSE IF value.s = "72" THEN Ok(72)
    ELSE ValueError

\* models._coerce_metric_value: Steps -> int, anything else -> float; the
\* value itself when the conversion raises.
CoerceMetricValue(metric_type, value) ==
    LET r == IF metric_type = "Steps" THEN PyInt(value) ELSE PyFloat(value)
    IN  IF r.ok THEN Num(r.n) ELSE value

NoDate == -1

\* models.sensordata_doc; date is NoDate when no date_str is given.
SensordataDoc(user_id, metric_type, value, ts, date_str) ==
    [userId |-> user_id, metricType |-> metric_type,
     value |-> CoerceMetricValue(metric_type, value), ts |-> ts, date |-> date_str]

----------------------------------------------------------------------------
(* Sequence and rational helpers.                                          *)

RECURSIVE SumSeq(_)
SumSeq(s) == IF s = <<>> THEN 0 ELSE Head(s) + SumSeq(Tail(s))

Take(s, n) == SubSeq(s, 1, IF Len(s) < n THEN Len(s) ELSE n)

\* statistics.mean of a non-empty list of numbers, as a rational.
Mean(vals) == <<SumSeq(vals), Len(vals)>>

RatLess(a, b) == a[1] * b[2] < b[1] * a[2]

\* Python min(a, b) and max(a, b): the first argument unless the second is
\* strictly smaller (larger).
PyMin(a, b) == IF RatLess(b, a) THEN b ELSE a

PyMax(a, b) == IF RatLess(a, b) THEN b ELSE a

\* Python round(p/q, 2) in hundredths, p >= 0, q > 0: nearest, ties to even.
\* The code rounds a binary float, which at an exact tie (p/q an odd multiple
\* of 0.005) may fall on either neighbour; the sample histories of ScoreSpec
\* and ReadinessSpec produce no tie.
Round2(p, q) ==
    LET n == 100 * p
        f == n \div q
        r == n % q
    IN  IF 2 * r < q THEN f
        ELSE IF 2 * r > q THEN f + 1
        ELSE IF f % 2 = 0 THEN f ELSE f + 1

----------------------------------------------------------------------------
(* rules.py: BehaviorModel.                                                *)

DEFAULT_HR_BASELINE == 75

DEFAULT_SLEEP_SCORE_BASELINE == 70

ValuesLimit == 500

RECURSIVE FindSamplesSince(_, _, _, _, _)
\* db.sensordata.find({userId, metricType, ts >= since}).sort("ts", -1) over
\* the first i documents of sd, which is kept in ts order.
FindSamplesSince(sd, i, user_id, metric, since) ==
    IF i = 0 THEN <<>>
    ELSE LET d == sd[i]
             rest == FindSamplesSince(sd, i - 1, user_id, metric, since)
         IN  IF d.userId = user_id /\ d.metricType = metric /\ d.ts >= since
             THEN <<d>> \o rest ELSE rest

\* The body of the loop of _values for one document, vals being the list
\* so far: float(d["value"]) is appended, and the ValueError of a value that
\* float() rejects is caught and the document skipped.
TryAppendFloatZero(vals, d) ==
    LET r == PyFloat(d.value)
    IN  [raised |-> FALSE, vals |-> Append(vals, IF r.ok THEN r.n ELSE 0)]

TryAppendFloat(vals, d) ==
    LET r == PyFloat(d.value)
    IN  IF r.ok THEN [raised |-> FALSE, vals |-> Append(vals, r.n)]
        ELSE [raised |-> FALSE, vals |-> vals]

RECURSIVE FloatValues(_, _)
\* The loop of _values over the documents docs: the list vals extended, or
\* the exception that ended the loop.
FloatValues(vals, docs) ==
    IF docs = <<>> THEN [raised |-> FALSE, vals |-> vals]
    ELSE LET r == TryAppendFloat(vals, Head(docs))
         IN  IF r.raised THEN r ELSE FloatValues(r.vals, Tail(docs))

\* BehaviorModel._values(user_id, metric, hours) evaluated at time t.
Values(sd, t, user_id, metric, hours) ==
    FloatValues(<<>>, Take(FindSamplesSince(sd, Len(sd), user_id, metric, t - hours),
                           ValuesLimit))

\* A clamp without its lower bound.
ClampNoFloor(x) == PyMin(<<1, 1>>, x)

\* _clamp(x, lo=0.1, hi=1.0) == max(lo, min(hi, x)).
Clamp(x) == PyMax(<<1, 10>>, PyMin(<<1, 1>>, x))

\* The heart-rate score _clamp(0.5 + (hr_baseline - hr_avg) / 20.0).
HrScore(hr_baseline, hr_avg) ==
    LET dn == hr_baseline[1] * hr_avg[2] - hr_avg[1] * hr_baseline[2]
        dd == hr_baseline[2] * hr_avg[2]
    IN  Clamp(<<10 * dd + dn, 20 * dd>>)

\* The sleep score _clamp(sleep_avg / 100.0).
SleepScore(sleep_avg) == Clamp(<<sleep_avg[1], 100 * sleep_avg[2]>>)

\* A blend with the two weights exchanged.
BlendSwapped(hr_score, sleep_score) ==
    Round2(6 * hr_score[1] * sleep_score[2] + 4 * sleep_score[1] * hr_score[2],
           10 * hr_score[2] * sleep_score[2])

\* round(0.4 * hr_score + 0.6 * sleep_score, 2), in hundredths.
Blend(hr_score, sleep_score) ==
    Round2(4 * hr_score[1] * sleep_score[2] + 6 * sleep_score[1] * hr_score[2],
           10 * hr_score[2] * sleep_score[2])

\* BehaviorModel.readiness_score(user_id) at time t: the score in
\* hundredths, or the exception raised by one of its _values calls.
ReadinessScore(sd, t, user_id) ==
    LET hr_base == Values(sd, t, user_id, "HR", 24 * 14)
        sleep_base == Values(sd, t, user_id, "SleepScore", 24 * 14)
        hr_rec == Values(sd, t, user_id, "HR", 24)
        sleep_rec == Values(sd, t, user_id, "SleepScore", 24 * 7)
        hr_base_vals == hr_base.vals
        sleep_base_vals == sleep_base.vals
        hr_baseline == IF hr_base_vals # <<>> THEN Mean(hr_base_vals)
                       ELSE <<DEFAULT_HR_BASELINE, 1>>
        sleep_baseline == IF sleep_base_vals # <<>> THEN Mean(sleep_base_vals)
                          ELSE <<DEFAULT_SLEEP_SCORE_BASELINE, 1>>
        hr_recent == hr_rec.vals
        sleep_recent == Take(sleep_rec.vals, 3)
        hr_avg == IF hr_recent # <<>> THEN Mean(hr_recent) ELSE hr_baseline
        sleep_avg == IF sleep_recent # <<>> THEN Mean(sleep_recent) ELSE sleep_baseline
    IN  IF hr_base.raised \/ sleep_base.raised \/ hr_rec.raised \/ sleep_rec.raised
        THEN [raised |-> TRUE, score |-> 0]
        ELSE [raised |-> FALSE,
              score |-> Blend(HrScore(hr_baseline, hr_avg), SleepScore(sleep_avg))]

\* date.today() at time t, as a day number.
Today(t) == t \div 24

\* BehaviorModel._recent_plans(user_id, days): the plans dated since today - days.
RecentPlansAllUsers(pl, t, user_id, days) ==
    {p \in pl : p.date >= Today(t) - days}

RecentPlans(pl, t, user_id, days) ==
    {p \in pl : p.userId = user_id /\ p.date >= Today(t) - days}

\* An adherence score rounded to two decimals.
AdherenceScoreRounded(pl, t, user_id) ==
    LET recent == RecentPlans(pl, t, user_id, 7)
        completed == Cardinality({p \in recent : p.status = "Completed"})
    IN  IF recent = {} THEN <<1, 2>>
        ELSE <<Round2(completed, Cardinality(recent)), 100>>

\* BehaviorModel.adherence_score(user_id, days=7), an exact ratio.
AdherenceScore(pl, t, user_id) ==
    LET recent == RecentPlans(pl, t, user_id, 7)
        completed == Cardinality({p \in recent : p.status = "Completed"})
    IN  IF recent = {} THEN <<1, 2>> ELSE <<completed, Cardinality(recent)>>

\* A candidate whose Moderate tier excludes readiness 0.6.
CandidateStrict(readiness, adherence) ==
    IF readiness > 80 /\ ~RatLess(adherence, <<3, 5>>) THEN "High"
    ELSE IF readiness > 60 THEN "Moderate"
    ELSE "Low"

\* The initial suggestion of next_best_intensity.
Candidate(readiness, adherence) ==
    IF readiness > 80 /\ ~RatLess(adherence, <<3, 5>>) THEN "High"
    ELSE IF readiness >= 60 THEN "Moderate"
    ELSE "Low"

\* An order in which an unlisted value counts as High.
OrderHighDefault(x) == IF x = "Low" THEN 0 ELSE IF x = "Moderate" THEN 1 ELSE 2

\* order.get(x, 1) with order = {"Low": 0, "Moderate": 1, "High": 2}.
Order(x) == IF x = "Low" THEN 0 ELSE IF x = "High" THEN 2 ELSE 1

Abs(x) == IF x < 0 THEN -x ELSE x

\* A find_one that returns the earliest-dated plan.
LastPlansEarliest(pl, user_id) ==
    {p \in pl : p.userId = user_id /\
                \A q \in pl : q.userId = user_id => q.date >= p.date}

\* db.plans.find_one({"userId": user_id}, sort=[("date", -1)]): the set of
\* documents find_one may return (empty when there is none).
LastPlans(pl, user_id) ==
    {p \in pl : p.userId = user_id /\
                \A q \in pl : q.userId = user_id => q.date <= p.date}

RECURSIVE FirstWorkoutIntensity(_)
\* The loop over last_plan["items"]: the intensity of the first Workout item,
\* Null when there is none.
FirstWorkoutIntensity(items) ==
    IF items = <<>> THEN Null
    ELSE IF Head(items).type = "Workout" THEN Head(items).intensity
    ELSE FirstWorkoutIntensity(Tail(items))

\* last_intensity of next_best_intensity.
LastIntensity(pl, user_id) ==
    LET found == LastPlans(pl, user_id)
    IN  IF found = {} THEN Null
        ELSE FirstWorkoutIntensity((CHOOSE p \in found : TRUE).items)

\* Hysteresis that lets a two-step jump through.
HysteresisWide(target, last_intensity) ==
    IF last_intensity # Null /\ Abs(Order(target) - Order(last_intensity)) > 2
    THEN "Moderate" ELSE target

\* The hysteresis rule of next_best_intensity.
Hysteresis(target, last_intensity) ==
    IF last_intensity # Null /\ Abs(Order(target) - Order(last_intensity)) > 1
    THEN "Moderate" ELSE target

ReadFaults == {"none", "sensordata", "plans"}

\* The end of next_best_intensity: the candidate for the two scores, passed
\* through the hysteresis rule with last_intensity, and what was observed.
SelectTarget(readiness, adherence, last_intensity) ==
    [raised |-> FALSE,
     target |-> Hysteresis(Candidate(readiness, adherence), last_intensity),
     readiness |-> readiness, adherence |-> adherence,
     last_intensity |-> last_intensity]

\* next_best_intensity once its two scores are computed: r the outcome of
\* readiness_score, adherence that of adherence_score.
NextBestIntensityOf(pl, user_id, fault, r, adherence) ==
    IF fault # "none" \/ r.raised
    THEN [raised |-> TRUE, target |-> Null, readiness |-> 0,
          adherence |-> <<0, 1>>, last_intensity |-> Null]
    ELSE SelectTarget(r.score, adherence, LastIntensity(pl, user_id))

\* BehaviorModel.next_best_intensity(user_id) at time t.  fault names the
\* collection whose read raises during the call ("none": no read raises).
NextBestIntensity(pl, sd, t, user_id, fault) ==
    NextBestIntensityOf(pl, user_id, fault, ReadinessScore(sd, t, user_id),
                        AdherenceScore(pl, t, user_id))

----------------------------------------------------------------------------
(* mcp.py: MCPBehaviorModel.                                               *)

\* MCPBehaviorModel.adherence_score(user_id), in hundredths.
MCPAdherenceScore(pl, t, user_id) ==
    LET recent == RecentPlans(pl, t, user_id, 7)
        completed == Cardinality({p \in recent : p.status = "Completed"})
    IN  IF recent = {} THEN 50 ELSE Round2(completed, Cardinality(recent))

----------------------------------------------------------------------------
(* models.py document factories and the store's upsert.                    *)

NoTime == -1

\* models.plan_item.
PlanItem(type, intensity, duration_min, notes) ==
    [type |-> type, intensity |-> intensity, durationMin |-> duration_min,
     notes |-> notes]

\* models.plan_doc.  The document as returned: it has no startedAt field.
PlanDoc(user_id, items, date, status) ==
    [userId |-> user_id, date |-> date, items |-> items, status |-> status]

\* A stored plan document.  A field the document lacks is <<>> (items) or
\* NoTime (startedAt).
NewPlan(user_id, date) ==
    [userId |-> user_id, date |-> date, items |-> <<>>, status |-> Null,
     startedAt |-> NoTime]

\* {"$set": fields} applied to a document.
SetFields(doc, fields) ==
    [k \in DOMAIN doc |-> IF k \in DOMAIN fields THEN fields[k] ELSE doc[k]]

\* An update that always inserts a new document.
UpsertPlanInsert(pl, user_id, date, fields) ==
    pl \cup {SetFields(NewPlan(user_id, date), fields)}

\* db.plans.update_one({"userId": user_id, "date": date}, {"$set": fields},
\* upsert=True): the first matching document is updated; with no match a new
\* document is inserted from the filter and the fields.
UpsertPlan(pl, user_id, date, fields) ==
    LET found == {p \in pl : p.userId = user_id /\ p.date = date}
    IN  IF found = {}
        THEN pl \cup {SetFields(NewPlan(user_id, date), fields)}
        ELSE LET p == CHOOSE q \in found : TRUE
             IN  (pl \ {p}) \cup {SetFields(p, fields)}

\* db.plans.find_one({"userId": user_id, "date": date}): the matching documents.
FindPlan(pl, user_id, date) == {p \in pl : p.userId = user_id /\ p.date = date}

----------------------------------------------------------------------------
(* system_function.py: generate_plan.                                      *)

\* The template table base of generate_plan.
Base(intensity) ==
    CASE intensity = "Low" ->
           <<PlanItem("Workout", "Low", 20, "Light mobility + walk"),
             PlanItem("Habit", "Low", 5, "Hydrate: +1L"),
             PlanItem("Recovery", "Low", 10, "Stretch + sleep target 8h")>>
      [] intensity = "Moderate" ->
           <<PlanItem("Workout", "Moderate", 35, "Bodyweight circuit + brisk walk"),
             PlanItem("Habit", "Low", 5, "2L water + protein target"),
             PlanItem("Recovery", "Low", 10, "Cooldown + mindfulness 5m")>>
      [] intensity = "High" ->
           <<PlanItem("Workout", "High", 45, "Intervals + strength"),
             PlanItem("Habit", "Low", 5, "Macros check + 2.5L water"),
             PlanItem("Recovery", "Low", 15, "Mobility + sleep hygiene")>>

\* A template lookup that falls back to the Low template.
TemplateItemsLowDefault(intensity) ==
    IF intensity \in {"Low", "Moderate", "High"} THEN Base(intensity)
    ELSE Base("Low")

\* base.get(intensity, base["Moderate"]).
TemplateItems(intensity) ==
    IF intensity \in {"Low", "Moderate", "High"} THEN Base(intensity)
    ELSE Base("Moderate")

\* generate_plan without its try/except: the exception propagates.
ResolveIntensityNoCatch(nbi) ==
    IF nbi.raised THEN [raised |-> TRUE, intensity |-> Null]
    ELSE IF nbi.target \in {Null, ""} THEN [raised |-> FALSE, intensity |-> "Moderate"]
    ELSE [raised |-> FALSE, intensity |-> nbi.target]

\* The try/except of generate_plan around the behaviour model's call:
\* next_best_intensity(user_id) or "Moderate", and "Moderate" on an exception.
ResolveIntensity(nbi) ==
    IF nbi.raised THEN [raised |-> FALSE, intensity |-> "Moderate"]
    ELSE IF nbi.target \in {Null, ""} THEN [raised |-> FALSE, intensity |-> "Moderate"]
    ELSE [raised |-> FALSE, intensity |-> nbi.target]

\* The upsert and the return of generate_plan, plan being the plan_doc built.
StorePlan(pl, user_id, nbi, intensity, plan) ==
    [plans |-> UpsertPlan(pl, user_id, plan.date, plan),
     call |-> [nbi |-> nbi, intensity |-> intensity, raised |-> FALSE,
               plan |-> plan]]

\* generate_plan after its try/except, res being the intensity resolved or
\* the exception that left the try/except.
PlanFrom(pl, t, user_id, nbi, res) ==
    IF res.raised
    THEN [plans |-> pl,
          call |-> [nbi |-> nbi, intensity |-> Null, raised |-> TRUE,
                    plan |-> PlanDoc(user_id, <<>>, Today(t), Null)]]
    ELSE StorePlan(pl, user_id, nbi, res.intensity,
                   PlanDoc(user_id, TemplateItems(res.intensity), Today(t),
                           "Proposed"))

\* generate_plan(user, behavior_model, db) at time t, given the outcome nbi
\* of behavior_model.next_best_intensity: the plans collection after the
\* upsert, the returned plan and what the call observed.
GeneratePlan(pl, t, user_id, nbi) ==
    PlanFrom(pl, t, user_id, nbi, ResolveIntensity(nbi))

\* generate_plan called with the BehaviorModel of app.py.
GeneratePlanFor(pl, sd, t, user_id, fault) ==
    GeneratePlan(pl, t, user_id, NextBestIntensity(pl, sd, t, user_id, fault))

----------------------------------------------------------------------------
(* generate_plan calls in flight: two calls served by different workers,   *)
(* each advancing one store operation at a time.  inflight[c] is the       *)
(* position of call c and what it has read so far.                         *)

CallIds == {1, 2}

NoNbi ==
    [raised |-> TRUE, target |-> Null, readiness |-> 0, adherence |-> <<0, 1>>,
     last_intensity |-> Null]

NoCall ==
    [pc |-> "idle", user |-> "", fault |-> "none", readiness |-> 0,
     adherence |-> <<0, 1>>, nbi |-> NoNbi, matched |-> FALSE, avg |-> 0,
     message |-> ""]

NoCalls == [c \in CallIds |-> NoCall]

----------------------------------------------------------------------------
(* app.py: the request handlers.  last is the outcome of the latest        *)
(* request: the handler, the user, the HTTP status and the generate_plan   *)
(* calls it made, in order.                                                *)

\* What the store held for the user when the request arrived.
Pre(user_id) ==
    [plans |-> Cardinality({p \in plans : p.userId = user_id}),
     samples |-> Cardinality({i \in 1..Len(sensordata) :
                                sensordata[i].userId = user_id})]

Result(op, user_id, code, calls) ==
    [op |-> op, user |-> user_id, code |-> code, calls |-> calls,
     pre |-> Pre(user_id), fault |-> "none", avg |-> 0, message |-> "", score |-> 0]

\* The outcome of a request during which the store operation fault raised.
ResultUnder(fault, op, user_id, code, calls) ==
    [Result(op, user_id, code, calls) EXCEPT !.fault = fault]

\* The end of a request that made the one generate_plan call g: the plans
\* collection as the call left it, 503 when the call raised, 200 otherwise.
Respond(op, user_id, fault, g) ==
    /\ plans' = g.plans
    /\ last' = ResultUnder(fault, op, user_id,
                           IF g.call.raised THEN 503 ELSE 200, <<g.call>>)

\* generate_plan(user, behavior, db) called directly.
generate_plan(user_id, fault) ==
    /\ Respond("generate_plan", user_id, fault,
               GeneratePlanFor(plans, sensordata, now, user_id, fault))
    /\ UNCHANGED <<inflight, sensordata, recommendations, now>>

\* MCPBehaviorModel(db).adherence_score(user_id) called directly.
mcp_adherence_score(user_id) ==
    /\ last' = [Result("mcp_adherence_score", user_id, 200, <<>>)
                  EXCEPT !.score = MCPAdherenceScore(plans, now, user_id)]
    /\ UNCHANGED <<inflight, plans, sensordata, recommendations, now>>

\* BehaviorModel.next_best_intensity(user_id) for a user whose
\* readiness_score is readiness (in hundredths) and whose adherence_score is
\* adherence, called directly.
next_best_intensity(user_id, readiness, adherence) ==
    /\ last' = Result("next_best_intensity", user_id, 200,
                      <<[nbi |-> NextBestIntensityOf(plans, user_id, "none",
                                    [raised |-> FALSE, score |-> readiness],
                                    adherence),
                        intensity |-> Null, raised |-> FALSE,
                        plan |-> PlanDoc(user_id, <<>>, Today(now), Null)]>>)
    /\ UNCHANGED <<inflight, plans, sensordata, recommendations, now>>

\* The outcomes of a behaviour model other than BehaviorModel: a recognised
\* intensity, an unrecognised one, None, the empty string.
StubTargets == {"Low", "Moderate", "High", "Extreme", Null, ""}

\* generate_plan(user, behavior_model, db) with a behaviour model whose
\* next_best_intensity returns target, or raises.
generate_plan_with(user_id, target, raises) ==
    /\ Respond("generate_plan_with", user_id, "none",
               GeneratePlan(plans, now, user_id,
                            [raised |-> raises, target |-> target, readiness |-> 0,
                             adherence |-> <<0, 1>>, last_intensity |-> Null]))
    /\ UNCHANGED <<inflight, sensordata, recommendations, now>>

\* GET /me/plan.
get_plan(user_id, fault) ==
    /\ IF FindPlan(plans, user_id, Today(now)) = {}
       THEN Respond("get_plan", user_id, fault,
                    GeneratePlanFor(plans, sensordata, now, user_id, fault))
       ELSE /\ plans' = plans
            /\ last' = Result("get_plan", user_id, 200, <<>>)
    /\ UNCHANGED <<inflight, sensordata, recommendations, now>>

\* datetime.now(datetime.UTC) in app.py, where datetime is the class bound by
\* "from datetime import date, datetime, timedelta": the class has no
\* attribute UTC, so the expression raises AttributeError at every time t.
DatetimeNowUTC(t) == [raised |-> TRUE, value |-> NoTime]

\* POST /me/plan/start.  The arguments of update_one are evaluated before
\* the call, so an exception in them leaves the store as it was; the
\* handler catches PyMongoError only, and the error handler answers 500.
StartToday(user_id, started) ==
    /\ plans' = IF started.raised THEN plans
                ELSE UpsertPlan(plans, user_id, Today(now),
                                [status |-> "In Progress",
                                 startedAt |-> started.value])
    /\ last' = Result("start_plan", user_id,
                      IF started.raised THEN 500 ELSE 200, <<>>)

start_plan(user_id) ==
    /\ StartToday(user_id, DatetimeNowUTC(now))
    /\ UNCHANGED <<inflight, sensordata, recommendations, now>>

\* POST /me/plan/complete.
complete_plan(user_id) ==
    /\ plans' = UpsertPlan(plans, user_id, Today(now), [status |-> "Completed"])
    /\ last' = Result("complete_plan", user_id, 200, <<>>)
    /\ UNCHANGED <<inflight, sensordata, recommendations, now>>

\* The second half of _upsert_plan_for_date, g being its generate_plan call:
\* doc["date"] = the_date, doc["userId"] = user_id, and the upsert of doc
\* under (user_id, the_date).
CopyToDate(g, user_id, the_date) ==
    IF g.call.raised THEN g
    ELSE [plans |-> UpsertPlan(g.plans, user_id, the_date,
                               [g.call.plan EXCEPT !.userId = user_id,
                                                   !.date = the_date]),
          call |-> g.call]

\* _upsert_plan_for_date(user_id, the_date): generate_plan, then the returned
\* plan written again under the_date.
UpsertPlanForDate(pl, sd, t, user_id, the_date, fault) ==
    CopyToDate(GeneratePlanFor(pl, sd, t, user_id, fault), user_id, the_date)

WeekDays == 7

RECURSIVE WeekLoop(_, _, _, _, _, _, _, _)
\* One iteration of the week loop after its _upsert_plan_for_date call g:
\* the exception ends the loop, otherwise the loop goes on with day i + 1.
WeekStep(g, calls, sd, t, user_id, i, regenerate, fault) ==
    IF g.call.raised
    THEN [plans |-> g.plans, calls |-> Append(calls, g.call), raised |-> TRUE]
    ELSE WeekLoop(g.plans, Append(calls, g.call), sd, t, user_id, i + 1,
                  regenerate, fault)

\* The loop for i in range(7) of get_week_plan (regenerate = FALSE: only the
\* dates without a plan) and regenerate_week_plan (regenerate = TRUE), from
\* iteration i on, calls being the generate_plan calls made so far.
WeekLoop(pl, calls, sd, t, user_id, i, regenerate, fault) ==
    IF i >= WeekDays THEN [plans |-> pl, calls |-> calls, raised |-> FALSE]
    ELSE IF ~regenerate /\ FindPlan(pl, user_id, Today(t) + i) # {}
    THEN WeekLoop(pl, calls, sd, t, user_id, i + 1, regenerate, fault)
    ELSE WeekStep(UpsertPlanForDate(pl, sd, t, user_id, Today(t) + i, fault),
                  calls, sd, t, user_id, i, regenerate, fault)

\* The end of a week request whose loop ended as w.
RespondWeek(op, user_id, fault, w) ==
    /\ plans' = w.plans
    /\ last' = ResultUnder(fault, op, user_id,
                           IF w.raised THEN 503 ELSE 200, w.calls)

\* GET /me/plan/week.
get_week_plan(user_id, fault) ==
    /\ RespondWeek("get_week_plan", user_id, fault,
                   WeekLoop(plans, <<>>, sensordata, now, user_id, 0, FALSE, fault))
    /\ UNCHANGED <<inflight, sensordata, recommendations, now>>

\* POST /me/plan/week/regenerate.
regenerate_week_plan(user_id, fault) ==
    /\ RespondWeek("regenerate_week_plan", user_id, fault,
                   WeekLoop(plans, <<>>, sensordata, now, user_id, 0, TRUE, fault))
    /\ UNCHANGED <<inflight, sensordata, recommendations, now>>

\* The end of start_plan_on_date after its _upsert_plan_for_date call g:
\* status "In Progress" and startedAt set on the plan of (user_id, the_date)
\* unless building the update raised.  The handler answers 400 to a
\* PyMongoError and the error handler 500 to any other exception.
StartOnDate(user_id, the_date, fault, g, started) ==
    /\ plans' = IF g.call.raised \/ started.raised THEN g.plans
                ELSE UpsertPlan(g.plans, user_id, the_date,
                                [status |-> "In Progress",
                                 startedAt |-> started.value])
    /\ last' = ResultUnder(fault, "start_plan_on_date", user_id,
                           IF g.call.raised THEN 400
                           ELSE IF started.raised THEN 500 ELSE 200,
                           <<g.call>>)

\* POST /me/plan/<the_date>/start, the_date a well-formed ISO date.
start_plan_on_date(user_id, the_date, fault) ==
    /\ StartOnDate(user_id, the_date, fault,
                   UpsertPlanForDate(plans, sensordata, now, user_id, the_date,
                                     fault),
                   DatetimeNowUTC(now))
    /\ UNCHANGED <<inflight, sensordata, recommendations, now>>

\* POST /me/plan/<the_date>/complete.
complete_plan_on_date(user_id, the_date) ==
    /\ plans' = UpsertPlan(plans, user_id, the_date, [status |-> "Completed"])
    /\ last' = Result("complete_plan_on_date", user_id, 200, <<>>)
    /\ UNCHANGED <<inflight, sensordata, recommendations, now>>

MaxSamples == 2

RECURSIVE SensorDocs(_, _, _)
\* The loop of ingest_metrics: one sensordata_doc per item of the payload.
SensorDocs(user_id, items, t) ==
    IF items = <<>> THEN <<>>
    ELSE <<SensordataDoc(user_id, Head(items).metricType, Head(items).value, t, NoDate)>>
         \o SensorDocs(user_id, Tail(items), t)

\* The number of samples of one metric type in the collection, which the
\* requests keep within MaxSamples.
CountMetric(sd, metric) ==
    Cardinality({i \in 1..Len(sd) : sd[i].metricType = metric})

\* POST /me/metrics with a list of {metricType, value} items.
ingest_metrics(user_id, payload) ==
    /\ \A i \in 1..Len(payload) :
         CountMetric(sensordata \o SensorDocs(user_id, payload, now),
                     payload[i].metricType) <= MaxSamples
    /\ sensordata' = sensordata \o SensorDocs(user_id, payload, now)
    /\ last' = Result("ingest_metrics", user_id, 200, <<>>)
    /\ UNCHANGED <<inflight, plans, recommendations, now>>

RECURSIVE Without(_, _)
\* sd without its first element that equals d.
Without(sd, d) ==
    IF sd = <<>> THEN <<>>
    ELSE IF Head(sd) = d THEN Tail(sd)
    ELSE <<Head(sd)>> \o Without(Tail(sd), d)

\* POST /me/metrics/steps: int(value), then the day's Steps document of the
\* user is overwritten (its ts becomes the newest) or inserted.
set_steps(user_id, value) ==
    LET steps == PyInt(value)
        today == Today(now)
        doc == SensordataDoc(user_id, "Steps", Num(steps.n), now, today)
        found == {i \in 1..Len(sensordata) :
                    /\ sensordata[i].userId = user_id
                    /\ sensordata[i].metricType = "Steps"
                    /\ sensordata[i].date = today}
    IN  /\ IF ~steps.ok
           THEN /\ sensordata' = sensordata
                /\ last' = Result("set_steps", user_id, 500, <<>>)
           ELSE /\ found = {} => CountMetric(sensordata, "Steps") < MaxSamples
                /\ sensordata' =
                     IF found = {} THEN Append(sensordata, doc)
                     ELSE Append(Without(sensordata,
                                         sensordata[CHOOSE i \in found :
                                                      \A j \in found : i <= j]),
                                 doc)
                /\ last' = Result("set_steps", user_id, 200, <<>>)
        /\ UNCHANGED <<inflight, plans, recommendations, now>>

----------------------------------------------------------------------------
(* system_function.py: generate_nudges, and POST /me/nudge.                *)

LOW_STEP_THRESHOLD == 300

MODERATE_STEP_THRESHOLD == 2000

NudgeLimit == 6

RECURSIVE FindSamples(_, _, _, _)
\* db.sensordata.find({userId, metricType}).sort("ts", -1) over the first i
\* documents of sd.
FindSamples(sd, i, user_id, metric) ==
    IF i = 0 THEN <<>>
    ELSE LET d == sd[i]
             rest == FindSamples(sd, i - 1, user_id, metric)
         IN  IF d.userId = user_id /\ d.metricType = metric
             THEN <<d>> \o rest ELSE rest

RECURSIVE IntValues(_, _)
\* [int(m["value"]) for m in cursor], vals being the list so far: the list,
\* or the ValueError of the first value that int() rejects.
IntValues(vals, docs) ==
    IF docs = <<>> THEN [raised |-> FALSE, vals |-> vals]
    ELSE LET r == PyInt(Head(docs).value)
         IN  IF r.ok THEN IntValues(Append(vals, r.n), Tail(docs))
             ELSE [raised |-> TRUE, vals |-> <<>>]

\* int(x / n): truncation toward zero.
TruncDiv(x, n) == IF x >= 0 THEN x \div n ELSE -((-x) \div n)

\* A message choice whose first tier includes the threshold.
NudgeMessageInclusive(avg) ==
    IF avg <= LOW_STEP_THRESHOLD
    THEN "Quick win: 10-minute brisk walk to boost your step count."
    ELSE IF avg < MODERATE_STEP_THRESHOLD
    THEN "Great start! Add another short walk to hit your daily goal."
    ELSE "Nice pace! Add a 5-minute stretch break to stay loose."

\* The message chosen by generate_nudges for the average avg.
NudgeMessage(avg) ==
    IF avg < LOW_STEP_THRESHOLD
    THEN "Quick win: 10-minute brisk walk to boost your step count."
    ELSE IF avg < MODERATE_STEP_THRESHOLD
    THEN "Great start! Add another short walk to hit your daily goal."
    ELSE "Nice pace! Add a 5-minute stretch break to stay loose."

\* A recommendation document that keeps the default context "".
RecommendationDocDefault(user_id, message, context, ts) ==
    [userId |-> user_id, message |-> message, context |-> "", ts |-> ts]

\* models.recommendation_doc.
RecommendationDoc(user_id, message, context, ts) ==
    [userId |-> user_id, message |-> message, context |-> context, ts |-> ts]

\* generate_nudges(user_id, behavior_model, db) at time t: whether it raised,
\* the average, and the recommendation it inserts and returns.
GenerateNudges(sd, t, user_id) ==
    LET cursor == Take(FindSamples(sd, Len(sd), user_id, "Steps"), NudgeLimit)
        recent_steps == IntValues(<<>>, cursor)
        avg == IF recent_steps.vals # <<>>
               THEN TruncDiv(SumSeq(recent_steps.vals), Len(recent_steps.vals))
               ELSE 0
    IN  [raised |-> recent_steps.raised, avg |-> avg,
         rec |-> RecommendationDoc(user_id, NudgeMessage(avg), "nudge", t)]

MaxRecs == 1

NudgeFaults == {"none", "read", "insert"}

\* POST /me/nudge.  fault names the store operation that raises a
\* PyMongoError during the request ("none": no operation raises).
make_nudge(user_id, fault) ==
    LET n == GenerateNudges(sensordata, now, user_id)
    IN  /\ Len(recommendations) < MaxRecs
        /\ IF fault # "none"
           THEN /\ recommendations' = recommendations
                /\ last' = ResultUnder(fault, "make_nudge", user_id, 503, <<>>)
           ELSE IF n.raised
           THEN /\ recommendations' = recommendations
                /\ last' = Result("make_nudge", user_id, 500, <<>>)
           ELSE /\ recommendations' = Append(recommendations, n.rec)
                /\ last' = [Result("make_nudge", user_id, 200, <<>>)
                              EXCEPT !.avg = n.avg, !.message = n.rec.message]
        /\ UNCHANGED <<inflight, plans, sensordata, now>>

----------------------------------------------------------------------------
(* Time passes between requests.                                           *)

MaxNow == 30

TickHours == {30}

Tick(dt) ==
    /\ now + dt <= MaxNow
    /\ now' = now + dt
    /\ UNCHANGED <<inflight, plans, sensordata, recommendations, last>>

----------------------------------------------------------------------------
(* The application: plan requests of any user in any order, from an empty  *)
(* database.                                                               *)

Init ==
    /\ plans = {}
    /\ sensordata = <<>>
    /\ recommendations = <<>>
    /\ now = 0
    /\ last = Result("init", "", 0, <<>>)
    /\ inflight = NoCalls

\* The dates of the per-date requests, relative to today.
DateOffsets == {0, 1}

\* The read faults of the plan requests.
SpecFaults == {"none", "sensordata"}

Next ==
    \/ \E u \in Users, f \in SpecFaults : get_plan(u, f)
    \/ \E u \in Users : start_plan(u)
    \/ \E u \in Users : complete_plan(u)
    \/ \E u \in Users, f \in SpecFaults : get_week_plan(u, f)
    \/ \E u \in Users, f \in SpecFaults : regenerate_week_plan(u, f)
    \/ \E u \in Users, o \in DateOffsets, f \in SpecFaults :
          start_plan_on_date(u, Today(now) + o, f)
    \/ \E u \in Users, o \in DateOffsets : complete_plan_on_date(u, Today(now) + o)

Spec == Init /\ [][Next]_vars

----------------------------------------------------------------------------
(* Scoring and plan generation on a database with a history: metric        *)
(* samples ingested earlier and plans left by earlier requests.            *)

ScoreNow == 400

Item(metric_type, value) == [metricType |-> metric_type, value |-> value]

\* A sample of U1 posted to /me/metrics age hours ago.
Sample(metric_type, value, age) ==
    SensordataDoc("U1", metric_type, value, ScoreNow - age, NoDate)

\* Sample histories with readiness 0.62, 0.32, 0.6, 0.8, 0.82 and 0.62.
ScoreHistories ==
    {<<>>,
     <<Sample("SleepScore", Num(20), 0)>>,
     <<Sample("SleepScore", Num(67), 0)>>,
     <<Sample("SleepScore", Num(100), 0)>>,
     <<Sample("HR", Num(95), 30), Sample("HR", Num(55), 0)>>,
     <<Sample("HR", Str("abc"), 0)>>}

\* Plan documents as the handlers leave them: the items of a template or
\* none, a status, no start time.
StoredPlans(user_id, date, itemsets, statuses) ==
    {[userId |-> user_id, date |-> date, items |-> it, status |-> st,
      startedAt |-> NoTime] : it \in itemsets, st \in statuses}

AnyItems == {<<>>, Base("Low"), Base("Moderate"), Base("High")}

\* At most one document of the set docs.
Optional(docs) == {{}} \cup {{d} : d \in docs}

\* The plans of U1: possibly one outside the adherence window, one of
\* yesterday and one of tomorrow.
ScorePlans ==
    {a \cup b \cup c :
       a \in Optional(StoredPlans("U1", Today(ScoreNow) - 8, {Base("Low")},
                                  {"Completed"})),
       b \in Optional(StoredPlans("U1", Today(ScoreNow) - 1, AnyItems,
                                  {"Proposed", "Completed"})),
       c \in Optional(StoredPlans("U1", Today(ScoreNow) + 1, AnyItems,
                                  {"Proposed", "Completed"}))}

ScoreInit ==
    /\ plans \in ScorePlans
    /\ sensordata \in ScoreHistories
    /\ recommendations = <<>>
    /\ now = ScoreNow
    /\ last = Result("init", "", 0, <<>>)
    /\ inflight = NoCalls

ScoreNext ==
    \/ \E u \in Users, f \in ReadFaults : generate_plan(u, f)
    \/ \E u \in Users : mcp_adherence_score(u)

ScoreSpec == ScoreInit /\ [][ScoreNext]_vars

----------------------------------------------------------------------------
(* generate_plan under an arbitrary behaviour model, with the daily status *)
(* requests, from an empty database.                                       *)

PolicyNext ==
    \/ \E u \in Users, x \in StubTargets : generate_plan_with(u, x, FALSE)
    \/ \E u \in Users : generate_plan_with(u, Null, TRUE)
    \/ \E u \in Users : start_plan(u)
    \/ \E u \in Users : complete_plan(u)

PolicySpec == Init /\ [][PolicyNext]_vars

----------------------------------------------------------------------------
(* Readiness on every short history of HR and SleepScore samples.          *)

MaxReadinessSamples == 3

\* The ages, in hours, of the HR samples: within the 24 hours of hr_recent,
\* within the 14 days of the baseline, older.
HRAges == {0, 30, 350}

\* The ages, in hours, of the SleepScore samples: within the 7 days of
\* sleep_recent, within the 14 days of the baseline, older.
SleepAges == {30, 200, 350}

ReadinessSamples ==
    {Sample("HR", v, a) : v \in {Num(55), Num(95), Str("abc"), Str("72")},
                          a \in HRAges}
    \cup {Sample("SleepScore", v, a) :
            v \in {Num(-50), Num(20), Num(100000), Str("abc")}, a \in SleepAges}

\* The sensordata collection holds its documents in the order of their ts.
InTsOrder(sd) == \A i, j \in 1..Len(sd) : i < j => sd[i].ts <= sd[j].ts

\* Four SleepScore samples of the last 7 days, the newest one or the oldest
\* one not numeric, with or without an HR sample of the last 24 hours.
FourSleepScores ==
    {h \o <<Sample("SleepScore", a, 40), Sample("SleepScore", Num(20), 30),
            Sample("SleepScore", Num(20), 20), Sample("SleepScore", b, 10)>> :
       h \in {<<>>, <<Sample("HR", Num(55), 50), Sample("HR", Str("abc"), 45)>>},
       a \in {Num(100), Str("abc")}, b \in {Num(100), Str("abc")}}

ReadinessInit ==
    /\ plans = {}
    /\ sensordata \in {sd \in UNION {[1..n -> ReadinessSamples] :
                                       n \in 0..MaxReadinessSamples} : InTsOrder(sd)}
                      \cup FourSleepScores
    /\ recommendations = <<>>
    /\ now = ScoreNow
    /\ last = Result("init", "", 0, <<>>)
    /\ inflight = NoCalls

ReadinessNext == generate_plan("U1", "none")

ReadinessSpec == ReadinessInit /\ [][ReadinessNext]_vars

----------------------------------------------------------------------------
(* Step samples and nudges, from an empty database or from one that holds  *)
(* seven step samples of U1.                                               *)

StepsPayloads ==
    {<<Item("Steps", v)>> : v \in {Num(250), Num(351), Num(1000), Num(3000), Str("abc")}}

SetStepsValues == {Num(3000), Str("abc")}

\* One step sample of 3000 followed by six newer ones of 250, as six
\* requests to /me/metrics leave them.
SevenSteps ==
    <<SensordataDoc("U1", "Steps", Num(3000), 0, NoDate)>>
    \o [i \in 1..6 |-> SensordataDoc("U1", "Steps", Num(250), 0, NoDate)]

NudgeInit ==
    /\ plans = {}
    /\ sensordata \in {<<>>, SevenSteps}
    /\ recommendations = <<>>
    /\ now = 0
    /\ last = Result("init", "", 0, <<>>)
    /\ inflight = NoCalls

NudgeNext ==
    \/ \E u \in Users, p \in StepsPayloads : ingest_metrics(u, p)
    \/ \E u \in Users, v \in SetStepsValues : set_steps(u, v)
    \/ \E u \in Users, f \in NudgeFaults : make_nudge(u, f)
    \/ \E dt \in TickHours : Tick(dt)

NudgeSpec == NudgeInit /\ [][NudgeNext]_vars

----------------------------------------------------------------------------
(* Plan generation over time: the plan requests of a user whose database   *)
(* holds a history, with new sleep samples arriving between the requests.  *)

\* The metrics payloads that change readiness between two generations.
SleepPayloads == {<<Item("SleepScore", Num(20))>>}

CycleNext ==
    \/ \E f \in SpecFaults : generate_plan("U1", f)
    \/ \E p \in SleepPayloads : ingest_metrics("U1", p)
    \/ complete_plan("U1")
    \/ get_week_plan("U1", "none")
    \/ regenerate_week_plan("U1", "none")
    \/ \E o \in DateOffsets : start_plan_on_date("U1", Today(now) + o, "none")

\* The database at the start: possibly a plan of tomorrow left by an earlier
\* week request and completed since, and a sample history.
CycleInit ==
    /\ plans \in Optional(StoredPlans("U1", Today(ScoreNow) + 1, AnyItems,
                                      {"Completed"}))
    /\ sensordata \in ScoreHistories
    /\ recommendations = <<>>
    /\ now = ScoreNow
    /\ last = Result("init", "", 0, <<>>)
    /\ inflight = NoCalls

CycleSpec == CycleInit /\ [][CycleNext]_vars

----------------------------------------------------------------------------
(* The intensity decision for given scores, on plan collections holding    *)
(* any item lists: none, a template, no Workout item, several Workout      *)
(* items, an unrecognised or a missing intensity.                          *)

\* Readiness values around the thresholds 0.6 and 0.8, in hundredths.
ReadinessValues == {10, 50, 59, 60, 80, 81, 100}

\* Adherence values around the threshold 0.6.
AdherenceValues == {<<0, 1>>, <<3, 10>>, <<1, 2>>, <<3, 5>>, <<1, 1>>}

ItemLists ==
    AnyItems \cup
    {<<PlanItem("Habit", "Low", 5, "")>>,
     <<PlanItem("Habit", "Low", 5, ""), PlanItem("Workout", "High", 45, ""),
       PlanItem("Workout", "Low", 20, "")>>,
     <<PlanItem("Workout", "Low", 20, ""), PlanItem("Workout", "High", 45, "")>>,
     <<PlanItem("Workout", "Extreme", 60, "")>>,
     <<PlanItem("Workout", Null, 20, ""), PlanItem("Workout", "High", 45, "")>>}

\* The plans of U1: possibly one of yesterday and one of tomorrow.
IntensityPlans ==
    {a \cup b :
       a \in Optional(StoredPlans("U1", Today(ScoreNow) - 1, ItemLists,
                                  {"Completed"})),
       b \in Optional(StoredPlans("U1", Today(ScoreNow) + 1, ItemLists,
                                  {"Proposed"}))}

IntensityInit ==
    /\ plans \in IntensityPlans
    /\ sensordata = <<>>
    /\ recommendations = <<>>
    /\ now = ScoreNow
    /\ last = Result("init", "", 0, <<>>)
    /\ inflight = NoCalls

IntensityNext ==
    \E u \in Users, r \in ReadinessValues, a \in AdherenceValues :
       next_best_intensity(u, r, a)

IntensitySpec == IntensityInit /\ [][IntensityNext]_vars

----------------------------------------------------------------------------
(* system_function.py generate_plan, one store operation at a time.        *)

\* Call c moves on with the fields of its record changed to those of fields.
Advance(c, fields) ==
    /\ inflight' = [inflight EXCEPT ![c] = SetFields(inflight[c], fields)]
    /\ UNCHANGED <<sensordata, recommendations, now>>

\* A worker enters generate_plan for user_id; fault names the collection
\* whose read raises during this call.
call_begin(c, user_id, fault) ==
    /\ inflight[c].pc = "idle"
    /\ Advance(c, [pc |-> "readiness", user |-> user_id, fault |-> fault])
    /\ UNCHANGED <<plans, last>>

\* The sensordata reads of readiness_score.  An exception leaves
\* next_best_intensity, and generate_plan goes on to its upsert.
ReadinessRead(c, r) ==
    IF inflight[c].fault = "sensordata" \/ r.raised
    THEN Advance(c, [pc |-> "match", nbi |-> NoNbi])
    ELSE Advance(c, [pc |-> "adherence", readiness |-> r.score])

call_readiness(c) ==
    /\ inflight[c].pc = "readiness"
    /\ ReadinessRead(c, ReadinessScore(sensordata, now, inflight[c].user))
    /\ UNCHANGED <<plans, last>>

\* The plans read of adherence_score.
call_adherence(c) ==
    /\ inflight[c].pc = "adherence"
    /\ IF inflight[c].fault = "plans"
       THEN Advance(c, [pc |-> "match", nbi |-> NoNbi])
       ELSE Advance(c, [pc |-> "last",
                        adherence |-> AdherenceScore(plans, now, inflight[c].user)])
    /\ UNCHANGED <<plans, last>>

\* The find_one of the latest-dated plan, and the decision.
call_last(c) ==
    /\ inflight[c].pc = "last"
    /\ Advance(c, [pc |-> "match",
                   nbi |-> SelectTarget(inflight[c].readiness, inflight[c].adherence,
                                        LastIntensity(plans, inflight[c].user))])
    /\ UNCHANGED <<plans, last>>

\* The first half of update_one(..., upsert=True): the store looks for a
\* document of (user, today).  The plans index on (userId, date) is not
\* unique, so the store does not serialise this with the upsert of another
\* call.
call_match(c) ==
    /\ inflight[c].pc = "match"
    /\ Advance(c, [pc |-> "write",
                   matched |-> FindPlan(plans, inflight[c].user, Today(now)) # {}])
    /\ UNCHANGED <<plans, last>>

\* A document inserted from the filter and the fields of an upsert.
InsertPlan(pl, user_id, date, fields) ==
    pl \cup {SetFields(NewPlan(user_id, date), fields)}

\* The second half of the upsert, plan being the plan_doc that the call
\* built: the matched document is updated, or a new one inserted, and
\* generate_plan returns.
WritePlan(c, user_id, fault, nbi, plan) ==
    /\ plans' = IF inflight[c].matched
                THEN UpsertPlan(plans, user_id, plan.date, plan)
                ELSE InsertPlan(plans, user_id, plan.date, plan)
    /\ last' = ResultUnder(fault, "generate_plan", user_id, 200,
                           <<[nbi |-> nbi, intensity |-> plan.items[1].intensity,
                              raised |-> FALSE, plan |-> plan]>>)
    /\ inflight' = [inflight EXCEPT ![c].pc = "done"]
    /\ UNCHANGED <<sensordata, recommendations, now>>

call_write(c) ==
    /\ inflight[c].pc = "write"
    /\ WritePlan(c, inflight[c].user, inflight[c].fault, inflight[c].nbi,
                 PlanDoc(inflight[c].user,
                         TemplateItems(ResolveIntensity(inflight[c].nbi).intensity),
                         Today(now), "Proposed"))

----------------------------------------------------------------------------
(* system_function.py generate_nudges, one store operation at a time.      *)

nudge_begin(c, user_id, fault) ==
    /\ inflight[c].pc = "idle"
    /\ Advance(c, [pc |-> "find", user |-> user_id, fault |-> fault])
    /\ UNCHANGED <<plans, last>>

\* The find of the newest Steps samples, the average and the message.  A
\* failing read or a value int() rejects ends the call.
NudgeRead(c, user_id, fault, n) ==
    IF fault = "read" \/ n.raised
    THEN /\ Advance(c, [pc |-> "done"])
         /\ last' = ResultUnder(fault, "make_nudge", user_id,
                                IF fault = "read" THEN 503 ELSE 500, <<>>)
    ELSE /\ Advance(c, [pc |-> "insert", avg |-> n.avg, message |-> n.rec.message])
         /\ last' = last

nudge_find(c) ==
    /\ inflight[c].pc = "find"
    /\ NudgeRead(c, inflight[c].user, inflight[c].fault,
                 GenerateNudges(sensordata, now, inflight[c].user))
    /\ UNCHANGED <<plans, recommendations>>

\* recommendation_doc and insert_one.
nudge_insert(c) ==
    /\ inflight[c].pc = "insert"
    /\ inflight' = [inflight EXCEPT ![c].pc = "done"]
    /\ IF inflight[c].fault = "insert"
       THEN /\ recommendations' = recommendations
            /\ last' = ResultUnder("insert", "make_nudge", inflight[c].user, 503, <<>>)
       ELSE /\ recommendations' =
                 Append(recommendations,
                        RecommendationDoc(inflight[c].user, inflight[c].message,
                                          "nudge", now))
            /\ last' = [Result("make_nudge", inflight[c].user, 200, <<>>)
                          EXCEPT !.avg = inflight[c].avg,
                                 !.message = inflight[c].message]
    /\ UNCHANGED <<plans, sensordata, now>>

----------------------------------------------------------------------------
(* Two generate_plan calls in flight at once, on a database that may hold  *)
(* a plan of today.                                                        *)

RaceInit ==
    /\ plans \in Optional(StoredPlans("U1", Today(ScoreNow), {Base("High")},
                                      {"Completed"}))
    /\ sensordata \in {<<>>, <<Sample("SleepScore", Num(20), 0)>>}
    /\ recommendations = <<>>
    /\ now = ScoreNow
    /\ last = Result("init", "", 0, <<>>)
    /\ inflight = NoCalls

RaceNext ==
    \/ \E c \in CallIds, u \in Users, f \in ReadFaults : call_begin(c, u, f)
    \/ \E c \in CallIds : call_readiness(c)
    \/ \E c \in CallIds : call_adherence(c)
    \/ \E c \in CallIds : call_last(c)
    \/ \E c \in CallIds : call_match(c)
    \/ \E c \in CallIds : call_write(c)

RaceSpec == RaceInit /\ [][RaceNext]_vars

----------------------------------------------------------------------------
(* A generate_plan call and a generate_nudges call of user U1, one store   *)
(* operation at a time, among requests of user U2, on a database that      *)
(* holds documents of both.                                                *)

IsolationSamples ==
    <<SensordataDoc("U1", "HR", Num(95), ScoreNow - 30, NoDate),
      SensordataDoc("U1", "HR", Num(55), ScoreNow, NoDate),
      SensordataDoc("U1", "Steps", Num(3000), ScoreNow - 1, NoDate),
      SensordataDoc("U2", "Steps", Num(250), ScoreNow, Today(ScoreNow))>>

IsolationInit ==
    /\ \E mine \in Optional(StoredPlans("U1", Today(ScoreNow) - 1, {Base("High")},
                                        {"Completed"})) :
          plans = mine \cup StoredPlans("U2", Today(ScoreNow) + 1, {Base("Low")},
                                        {"Proposed"})
    /\ sensordata \in {IsolationSamples, SubSeq(IsolationSamples, 4, 4)}
    /\ recommendations = <<>>
    /\ now = ScoreNow
    /\ last = Result("init", "", 0, <<>>)
    /\ inflight = NoCalls

IsolationNext ==
    \/ \E f \in ReadFaults : call_begin(1, "U1", f)
    \/ \E c \in CallIds : call_readiness(c)
    \/ \E c \in CallIds : call_adherence(c)
    \/ \E c \in CallIds : call_last(c)
    \/ \E c \in CallIds : call_match(c)
    \/ \E c \in CallIds : call_write(c)
    \/ \E f \in NudgeFaults : nudge_begin(2, "U1", f)
    \/ \E c \in CallIds : nudge_find(c)
    \/ \E c \in CallIds : nudge_insert(c)
    \/ generate_plan("U2", "none")
    \/ complete_plan("U2")
    \/ \E p \in SleepPayloads : ingest_metrics("U2", p)
    \/ make_nudge("U2", "none")

IsolationSpec == IsolationInit /\ [][IsolationNext]_vars

----------------------------------------------------------------------------
(* The properties.                                                         *)

Intensities == {"Low", "Moderate", "High"}

\* The position of an intensity on the scale Low < Moderate < High.
Rank(x) == CASE x = "Low" -> 0 [] x = "Moderate" -> 1 [] x = "High" -> 2

\* The latest request is a direct generate_plan call.
Generated == last.op = "generate_plan" /\ Len(last.calls) = 1

TheCall == last.calls[1]

\* The plans of a user with no later-dated plan of that user.
LatestPlansOf(pl, u) ==
    {p \in pl : p.userId = u /\ ~\E q \in pl : q.userId = u /\ q.date > p.date}

WorkoutIntensitiesOf(p) ==
    {p.items[i].intensity : i \in {j \in 1..Len(p.items) : p.items[j].type = "Workout"}}

\* C1: when the user's latest-dated stored plan contains a Workout item of
\* intensity Low, Moderate or High, the intensity that next_best_intensity
\* returns is at most one step away from it, whatever readiness and adherence.
C1_OneStepFromLastPlan ==
    [][\A u \in Users :
         (last'.op = "generate_plan" /\ last'.user = u
          /\ ~last'.calls[1].nbi.raised)
         => \A p \in LatestPlansOf(plans, u) :
              \A x \in WorkoutIntensitiesOf(p) \cap Intensities :
                /\ last'.calls[1].nbi.target \in Intensities
                /\ Abs(Rank(last'.calls[1].nbi.target) - Rank(x)) <= 1]_vars

\* A Low last plan met a High candidate and Moderate was returned.
C1_Witness ==
    /\ Generated
    /\ ~TheCall.nbi.raised
    /\ TheCall.nbi.last_intensity = "Low"
    /\ TheCall.nbi.readiness > 80
    /\ ~RatLess(TheCall.nbi.adherence, <<3, 5>>)
    /\ TheCall.nbi.target = "Moderate"

\* The Workout intensity a plan must carry for the outcome of the behaviour
\* model: the returned intensity when it is Low, Moderate or High, and
\* Moderate for an exception, None, an empty or an unrecognised value.
ExpectedIntensity(nbi) ==
    IF ~nbi.raised /\ nbi.target \in Intensities THEN nbi.target ELSE "Moderate"

WorkoutMinutes(x) == CASE x = "Low" -> 20 [] x = "Moderate" -> 35 [] x = "High" -> 45

ThreeItems(items, x) ==
    /\ Len(items) = 3
    /\ items[1].type = "Workout" /\ items[2].type = "Habit"
    /\ items[3].type = "Recovery"
    /\ items[1].intensity = x /\ items[1].durationMin = WorkoutMinutes(x)
    /\ items[2].intensity = "Low" /\ items[3].intensity = "Low"

\* C2: every plan returned by generate_plan has exactly the three items
\* Workout, Habit, Recovery in that order; the Workout item carries the
\* resolved intensity with 20, 35 or 45 minutes, Habit and Recovery are Low.
C2_ThreeItemsInOrder ==
    last.op = "generate_plan_with" =>
       /\ last.code = 200
       /\ ~TheCall.raised
       /\ ThreeItems(TheCall.plan.items, ExpectedIntensity(TheCall.nbi))

\* An unrecognised intensity produced the Moderate plan.
C2_Witness ==
    /\ last.op = "generate_plan_with"
    /\ TheCall.nbi.target = "Extreme"
    /\ TheCall.plan.items[1].intensity = "Moderate"

\* C3: the plans collection holds at most one document per (userId, date).
C3_OnePlanPerUserDate ==
    \A p, q \in plans : (p.userId = q.userId /\ p.date = q.date) => p = q

\* A week was regenerated over the seven plans the user already had.
C3_Witness ==
    /\ last.op = "regenerate_week_plan"
    /\ last.code = 200
    /\ last.pre.plans = WeekDays
    /\ Cardinality({p \in plans : p.userId = last.user}) = WeekDays

\* C4: when a store read of next_best_intensity raises, generate_plan does
\* not propagate it: it returns the Moderate plan with status Proposed and
\* has upserted it for (user, today).
C4_FallbackOnReadFailure ==
    (Generated /\ last.fault # "none") =>
       /\ last.code = 200
       /\ ~TheCall.raised
       /\ TheCall.intensity = "Moderate"
       /\ ThreeItems(TheCall.plan.items, "Moderate")
       /\ TheCall.plan.status = "Proposed"
       /\ TheCall.plan.userId = last.user
       /\ TheCall.plan.date = Today(now)
       /\ \E p \in plans :
            /\ p.userId = last.user /\ p.date = Today(now)
            /\ p.items = TheCall.plan.items /\ p.status = "Proposed"

\* A read failed for a user whose samples give a readiness below 0.6.
C4_Witness ==
    /\ Generated
    /\ last.fault = "plans"
    /\ ReadinessScore(sensordata, now, last.user).score < 60
    /\ TheCall.plan.items[1].intensity = "Moderate"

\* C5: readiness_score returns a value in [0.1, 1.0] for every set of stored
\* HR and SleepScore samples, and never raises because of the data.
C5_ReadinessInRange ==
    (Generated /\ last.fault = "none") =>
       /\ ~TheCall.nbi.raised
       /\ TheCall.nbi.readiness >= 10
       /\ TheCall.nbi.readiness <= 100

\* Readiness 0.26 from a negative sleep score, with a non-numeric sample
\* among those read.
C5_Witness ==
    /\ Generated
    /\ last.fault = "none"
    /\ TheCall.nbi.readiness = 26
    /\ \E i \in 1..Len(sensordata) : sensordata[i].value.t = "str"
    /\ \E i \in 1..Len(sensordata) : sensordata[i].value.n < 0

\* C6: with no stored plan of the user, next_best_intensity returns the
\* candidate: High when readiness > 0.8 and adherence >= 0.6, else Moderate
\* when readiness >= 0.6, else Low.
C6_CandidateWithoutPlan ==
    (Generated /\ ~TheCall.nbi.raised /\ last.pre.plans = 0) =>
       TheCall.nbi.target =
          (IF TheCall.nbi.readiness > 80
              /\ 5 * TheCall.nbi.adherence[1] >= 3 * TheCall.nbi.adherence[2]
           THEN "High"
           ELSE IF TheCall.nbi.readiness >= 60 THEN "Moderate" ELSE "Low")

\* Readiness exactly 0.6 and no plan: Moderate.
C6_Witness ==
    /\ Generated
    /\ ~TheCall.nbi.raised
    /\ last.pre.plans = 0
    /\ TheCall.nbi.readiness = 60
    /\ TheCall.nbi.target = "Moderate"

\* The plans of a user dated on or after today minus 7 days, and those of
\* them that are Completed.
InWindow(pl, u, t) == {p \in pl : p.userId = u /\ p.date + 7 >= Today(t)}

CompletedIn(pl, u, t) == {p \in InWindow(pl, u, t) : p.status = "Completed"}

\* h hundredths is k/n rounded to two decimals.
IsRounded(h, k, n) == 2 * Abs(100 * k - h * n) <= n

\* C7 as stated: adherence_score returns 0.5 without a plan in the window,
\* and otherwise k/n rounded to 2 decimals.
C7_AsStated ==
    [][\A u \in Users :
         (last'.op = "generate_plan" /\ last'.user = u
          /\ ~last'.calls[1].nbi.raised)
         => LET n == Cardinality(InWindow(plans, u, now))
                k == Cardinality(CompletedIn(plans, u, now))
                a == last'.calls[1].nbi.adherence
            IN  IF n = 0 THEN 2 * a[1] = a[2]
                ELSE \E h \in 0..100 : IsRounded(h, k, n) /\ 100 * a[1] = h * a[2]]_vars

\* C7 amended: BehaviorModel.adherence_score returns 0.5 without a plan in
\* the window and otherwise exactly k/n, not rounded, a value in [0, 1];
\* MCPBehaviorModel.adherence_score returns 0.5, otherwise k/n rounded to 2
\* decimals.
C7_ExactRatio ==
    [][\A u \in Users :
         LET n == Cardinality(InWindow(plans, u, now))
             k == Cardinality(CompletedIn(plans, u, now))
             a == last'.calls[1].nbi.adherence
         IN  /\ (last'.op = "generate_plan" /\ last'.user = u
                 /\ ~last'.calls[1].nbi.raised)
                => /\ a[2] > 0 /\ 0 <= a[1] /\ a[1] <= a[2]
                   /\ IF n = 0 THEN 2 * a[1] = a[2] ELSE a[1] * n = k * a[2]
             /\ (last'.op = "mcp_adherence_score" /\ last'.user = u)
                => IF n = 0 THEN last'.score = 50
                   ELSE IsRounded(last'.score, k, n)]_vars

\* One of three plans in the window is Completed: adherence 1/3.
C7_Witness ==
    /\ Generated
    /\ ~TheCall.nbi.raised
    /\ TheCall.nbi.adherence = <<1, 3>>

\* The average generate_nudges must use: the truncated mean of the values of
\* the at most 6 newest Steps samples of the user, 0 without samples.
NewestSteps(u) ==
    LET idx == {i \in 1..Len(sensordata) :
                  sensordata[i].userId = u /\ sensordata[i].metricType = "Steps"}
    IN  {i \in idx : Cardinality({j \in idx : j > i}) < 6}

RECURSIVE SumAt(_)
SumAt(idx) ==
    IF idx = {} THEN 0
    ELSE LET i == CHOOSE j \in idx : TRUE
         IN  sensordata[i].value.n + SumAt(idx \ {i})

ExpectedAvg(u) ==
    LET idx == NewestSteps(u)
    IN  IF idx = {} THEN 0
        ELSE SumAt(idx) \div Cardinality(idx)

\* C8: generate_nudges selects its message from the truncated mean avg of
\* the at most 6 newest Steps samples (0 without samples): Quick win below
\* 300, another short walk from 300 and below 2000, stretch break from 2000.
C8_NudgeByAverage ==
    (last.op = "make_nudge" /\ last.code = 200) =>
       /\ last.avg = ExpectedAvg(last.user)
       /\ last.message =
            (IF last.avg < 300
             THEN "Quick win: 10-minute brisk walk to boost your step count."
             ELSE IF last.avg < 2000
             THEN "Great start! Add another short walk to hit your daily goal."
             ELSE "Nice pace! Add a 5-minute stretch break to stay loose.")
       /\ recommendations # <<>>
       /\ recommendations[Len(recommendations)].message = last.message

\* The mean 300.5 of the samples 250 and 351, truncated to the threshold 300,
\* selected the short-walk message.
C8_Witness ==
    /\ last.op = "make_nudge"
    /\ last.code = 200
    /\ last.avg = 300
    /\ \E i \in NewestSteps(last.user) : sensordata[i].value.n = 351
    /\ last.message = "Great start! Add another short walk to hit your daily goal."

\* C9: for a new user, without plans and without samples, generate_plan does
\* not fall back: adherence 0.5, readiness 0.62, Moderate without
\* hysteresis, and a Proposed plan with a Workout item of 35 minutes.
C9_NewUserModerate ==
    (Generated /\ last.fault = "none" /\ last.pre.plans = 0
     /\ last.pre.samples = 0) =>
       /\ ~TheCall.nbi.raised
       /\ TheCall.nbi.adherence = <<1, 2>>
       /\ TheCall.nbi.readiness = 62
       /\ TheCall.nbi.last_intensity = Null
       /\ TheCall.nbi.target = "Moderate"
       /\ TheCall.plan.status = "Proposed"
       /\ TheCall.plan.items[1].type = "Workout"
       /\ TheCall.plan.items[1].durationMin = 35

\* generate_plan has served a user without plans and without samples.
C9_Witness ==
    /\ Generated
    /\ last.fault = "none"
    /\ last.pre.plans = 0
    /\ last.pre.samples = 0
    /\ TheCall.plan.items[1].durationMin = 35

\* C10: a stored sample whose value is not a number never makes an averaging
\* computation raise: neither generate_plan nor generate_nudges ends in an
\* exception caused by the data.
C10_NoExceptionFromData ==
    /\ (last.op = "make_nudge" /\ last.fault = "none") => last.code = 200
    /\ (Generated /\ last.fault = "none") => ~TheCall.nbi.raised

\* C11: generate_nudges has no fallback.  A request during which the read of
\* the Steps samples or the insert of the recommendation raises returns no
\* message and is answered with the error, and a failed read leaves the
\* recommendations collection as it was; a successful request appends exactly
\* one recommendation, of the user, with context "nudge", carrying the
\* message returned.
C11_NudgeNoFallback ==
    [][(last'.op = "make_nudge" /\ now' = now) =>
         /\ last'.fault # "none" =>
              /\ last'.code = 503
              /\ last'.message = ""
         /\ last'.fault = "read" => recommendations' = recommendations
         /\ last'.code = 200 =>
              /\ Len(recommendations') = Len(recommendations) + 1
              /\ SubSeq(recommendations', 1, Len(recommendations)) = recommendations
              /\ recommendations'[Len(recommendations')] =
                   [userId |-> last'.user, message |-> last'.message,
                    context |-> "nudge", ts |-> now]]_vars

\* The read of the Steps samples raised for a user who has step samples.
C11_Witness ==
    /\ last.op = "make_nudge"
    /\ last.fault = "read"
    /\ last.code = 503
    /\ recommendations = <<>>
    /\ \E i \in 1..Len(sensordata) :
         sensordata[i].userId = last.user /\ sensordata[i].metricType = "Steps"

\* The Workout intensity of the plan that the latest generation for user u
\* left: every generate_plan call writes the plan of (u, today), so it is
\* the first item of that plan; none when no generation has written it.
PrevGenerated(pl, u) ==
    LET found == {p \in FindPlan(pl, u, Today(now)) : p.items # <<>>}
    IN  IF found = {} THEN <<>>
        ELSE <<(CHOOSE p \in found : TRUE).items[1].intensity>>

\* The Workout intensities of the plans returned by the calls, in order.
GeneratedIntensities(calls) ==
    [i \in 1..Len(calls) |-> calls[i].plan.items[1].intensity]

NoExtremeJump(s) ==
    \A i \in 1..(Len(s) - 1) : {s[i], s[i + 1]} # {"Low", "High"}

\* C12: of two plans generated one after the other for a user, directly,
\* by the week requests or by start-on-date, the Workout intensities are
\* never Low then High nor High then Low.
C12_NoExtremeJump ==
    [][last'.calls # <<>> =>
         NoExtremeJump(PrevGenerated(plans, last'.user)
                       \o GeneratedIntensities(last'.calls))]_vars

\* The latest request is a direct next_best_intensity call.
Decided == last.op = "next_best_intensity"

\* C13 as stated: with readiness 0.5 and adherence 0.3, next_best_intensity
\* returns Moderate whatever the plans of the user.
C13_AsStated ==
    (Decided /\ TheCall.nbi.readiness = 50 /\ TheCall.nbi.adherence = <<3, 10>>)
       => TheCall.nbi.target = "Moderate"

\* C13, amended: with readiness 0.5 and adherence 0.3, next_best_intensity
\* returns Moderate exactly when the first Workout item of the latest-dated
\* plan of the user has intensity High, and Low otherwise.
C13_LowUnlessLastHigh ==
    (Decided /\ TheCall.nbi.readiness = 50 /\ TheCall.nbi.adherence = <<3, 10>>)
       => TheCall.nbi.target =
            (IF \E p \in LatestPlansOf(plans, last.user) :
                  \E i \in 1..Len(p.items) :
                     /\ p.items[i].type = "Workout"
                     /\ p.items[i].intensity = "High"
                     /\ \A j \in 1..(i - 1) : p.items[j].type # "Workout"
             THEN "Moderate" ELSE "Low")

\* Readiness 0.5 and adherence 0.3 with a latest plan of Moderate intensity:
\* Low was returned.
C13_Witness ==
    /\ Decided
    /\ TheCall.nbi.readiness = 50
    /\ TheCall.nbi.adherence = <<3, 10>>
    /\ TheCall.nbi.last_intensity = "Moderate"
    /\ TheCall.nbi.target = "Low"

\* The statuses of the plans stored for the user of the latest request and
\* today.
StatusToday == {p.status : p \in FindPlan(plans, last.user, Today(now))}

\* C14: the status of a plan has no transition guard.  Whatever was stored
\* for (user, today), the start request leaves one plan with status
\* In Progress, the complete request one with status Completed, and a request
\* that generated plans for the user one with status Proposed.
C14_StatusSettable ==
    /\ last.op = "start_plan" => StatusToday = {"In Progress"}
    /\ last.op = "complete_plan" => StatusToday = {"Completed"}
    /\ (last.op \in {"get_plan", "get_week_plan", "regenerate_week_plan"}
        /\ last.calls # <<>>) => StatusToday = {"Proposed"}

\* The candidate for the scores of a call, by the thresholds 0.8 and 0.6.
CandidateOf(nbi) ==
    IF nbi.readiness > 80 /\ 5 * nbi.adherence[1] >= 3 * nbi.adherence[2]
    THEN "High"
    ELSE IF nbi.readiness >= 60 THEN "Moderate" ELSE "Low"

\* The intensities of the first Workout item of the latest-dated plan of u.
FirstWorkoutOfLatest(pl, u) ==
    UNION {{p.items[i].intensity :
              i \in {k \in 1..Len(p.items) :
                       /\ p.items[k].type = "Workout"
                       /\ \A j \in 1..(k - 1) : p.items[j].type # "Workout"}} :
           p \in LatestPlansOf(pl, u)}

\* C15: for a user with a stored plan, next_best_intensity returns Moderate
\* when the first Workout item of the latest-dated plan and the candidate are
\* Low and High or High and Low, and the candidate in every other case,
\* whatever the later items of that plan and the earlier-dated plans hold.
C15_HysteresisOnTwoStep ==
    (Decided /\ \E p \in plans : p.userId = last.user) =>
       TheCall.nbi.target =
          (IF \E x \in FirstWorkoutOfLatest(plans, last.user) :
                {x, CandidateOf(TheCall.nbi)} = {"Low", "High"}
           THEN "Moderate" ELSE CandidateOf(TheCall.nbi))

\* A Low candidate met a latest plan whose first Workout item is High and
\* whose later Workout item is Low, with an earlier-dated plan stored:
\* Moderate was returned.
C15_Witness ==
    /\ Decided
    /\ CandidateOf(TheCall.nbi) = "Low"
    /\ TheCall.nbi.target = "Moderate"
    /\ Cardinality({p \in plans : p.userId = last.user}) = 2
    /\ \E p \in LatestPlansOf(plans, last.user) :
         /\ Len(p.items) = 3
         /\ p.items[2].intensity = "High"
         /\ p.items[3].type = "Workout"
         /\ p.items[3].intensity = "Low"

\* C16: when two generate_plan calls for the same user have both returned,
\* whatever the interleaving of their store operations, the store holds
\* exactly one plan for (user, today), and its items and status are those
\* that one of the two calls wrote.
C16_OnePlanAfterRace ==
    (/\ \A c \in CallIds : inflight[c].pc = "done"
     /\ inflight[1].user = inflight[2].user) =>
       LET stored == FindPlan(plans, inflight[1].user, Today(now))
       IN  /\ Cardinality(stored) = 1
           /\ \A p \in stored :
                /\ p.status = "Proposed"
                /\ \E c \in CallIds :
                     p.items = Base(ExpectedIntensity(inflight[c].nbi))

\* The documents of user u, and those of everybody else.
Mine(docs, u) == {d \in docs : d.userId = u}

Others(docs, u) == {d \in docs : d.userId # u}

IsOf(u, d) == d.userId = u

MineSeq(docs, u) == SelectSeq(docs, LAMBDA d : IsOf(u, d))

OthersSeq(docs, u) == SelectSeq(docs, LAMBDA d : ~IsOf(u, d))

\* C17: every store operation of a generate_plan or generate_nudges call of
\* user A, whatever requests of another user B ran before it or between its
\* operations, leaves B's plans, B's recommendations and all sensordata as
\* they were; the only plan it writes is A's plan of today and the only
\* recommendation it appends is one of A; and what it writes is what the
\* same call writes on a database holding A's documents alone.
C17_UserIsolation ==
    [][\A c \in CallIds :
         inflight'[c] # inflight[c] =>
           LET u == inflight'[c].user
           IN  /\ sensordata' = sensordata
               /\ Others(plans', u) = Others(plans, u)
               /\ OthersSeq(recommendations', u) = OthersSeq(recommendations, u)
               /\ \A p \in plans' \ plans : p.userId = u /\ p.date = Today(now)
               /\ inflight[c].pc # "insert" => recommendations' = recommendations
               /\ inflight[c].pc # "write" => plans' = plans
               /\ inflight[c].pc = "write" =>
                    Mine(plans', u) =
                      GeneratePlanFor(Mine(plans, u), MineSeq(sensordata, u), now, u,
                                      inflight[c].fault).plans
               /\ (inflight[c].pc = "insert" /\ last'.code = 200) =>
                    recommendations' =
                      Append(recommendations,
                             GenerateNudges(MineSeq(sensordata, u), now, u).rec)
      ]_vars

\* Both calls of U1 have returned, the plan call with High and the nudge
\* call with the message of an average of 3000 steps, after U2 generated a
\* plan, completed it, was nudged and posted a SleepScore sample.
C17_Witness ==
    /\ inflight[1].pc = "done" /\ inflight[2].pc = "done"
    /\ ~inflight[1].nbi.raised
    /\ \E p \in FindPlan(plans, "U1", Today(now)) : p.items = Base("High")
    /\ \E p \in FindPlan(plans, "U2", Today(now)) : p.status = "Completed"
    /\ Len(recommendations) = 2
    /\ recommendations[1].userId = "U2" /\ recommendations[2].userId = "U1"
    /\ recommendations[2].message # recommendations[1].message
    /\ \E i \in 1..Len(sensordata) :
         sensordata[i].userId = "U2" /\ sensordata[i].metricType = "SleepScore"

\* C18: a get_week_plan request that succeeds adds plans only for dates
\* among today .. today + 6 for which the user had no plan, and leaves every
\* plan the user already had, today's included, as it was.
C18_WeekKeepsExisting ==
    [][(last'.op = "get_week_plan" /\ last'.code = 200) =>
         /\ plans \subseteq plans'
         /\ \A p \in plans' \ plans :
              /\ p.userId = last'.user
              /\ p.date \in {Today(now) + i : i \in 0..(WeekDays - 1)}
              /\ FindPlan(plans, last'.user, p.date) = {}
      ]_vars

\* The positions in sensordata of the numeric samples of metric that user u
\* recorded in the last hours hours.
NumericSamples(u, metric, hours) ==
    {i \in 1..Len(sensordata) :
       /\ sensordata[i].userId = u
       /\ sensordata[i].metricType = metric
       /\ sensordata[i].ts >= now - hours
       /\ PyFloat(sensordata[i].value).ok}

\* The n newest of the samples at the positions idx.
NewestOf(idx, n) == {i \in idx : Cardinality({j \in idx : j > i}) < n}

RECURSIVE FloatSumAt(_)
FloatSumAt(idx) ==
    IF idx = {} THEN 0
    ELSE LET i == CHOOSE j \in idx : TRUE
         IN  PyFloat(sensordata[i].value).n + FloatSumAt(idx \ {i})

\* The mean, as a fraction, of the samples at idx, or dflt when there are none.
MeanOr(idx, dflt) ==
    IF idx = {} THEN dflt ELSE <<FloatSumAt(idx), Cardinality(idx)>>

\* The fraction x limited to [0.1, 1.0].
Limited(x) ==
    IF 10 * x[1] < x[2] THEN <<1, 10>>
    ELSE IF x[1] > x[2] THEN <<1, 1>>
    ELSE x

\* 100 * round(0.4 * clamp(0.5 + (bhr - rhr) / 20) + 0.6 * clamp(rsl / 100), 2)
ReadinessOf(bhr, rhr, rsl) ==
    LET h == Limited(<<10 * bhr[2] * rhr[2] + bhr[1] * rhr[2] - rhr[1] * bhr[2],
                       20 * bhr[2] * rhr[2]>>)
        s == Limited(<<rsl[1], 100 * rsl[2]>>)
    IN  Round2(4 * h[1] * s[2] + 6 * s[1] * h[2], 10 * h[2] * s[2])

ExpectedReadiness(u) ==
    LET bhr == MeanOr(NumericSamples(u, "HR", 24 * 14), <<75, 1>>)
        bsl == MeanOr(NumericSamples(u, "SleepScore", 24 * 14), <<70, 1>>)
    IN  ReadinessOf(bhr, MeanOr(NumericSamples(u, "HR", 24), bhr),
                    MeanOr(NewestOf(NumericSamples(u, "SleepScore", 24 * 7), 3), bsl))

\* C19: the readiness that next_best_intensity obtained is, in hundredths,
\* round(0.4 * clamp(0.5 + (baselineHR - recentHR) / 20) + 0.6 *
\* clamp(recentSleep / 100), 2): the baselines are the means of the numeric
\* samples of the last 14 days (75 and 70 without any), recentHR the mean of
\* the numeric HR samples of the last 24 hours (else baselineHR), recentSleep
\* the mean of the 3 newest numeric SleepScore samples of the last 7 days
\* (else baselineSleep); a non-numeric sample takes part in no mean.
C19_ReadinessFormula ==
    (Generated /\ last.fault = "none") =>
       /\ ~TheCall.nbi.raised
       /\ TheCall.nbi.readiness = ExpectedReadiness(last.user)

\* Four SleepScore samples of the last 7 days, the newest not numeric: the
\* mean is that of 20, 20 and 100, the three newest numeric ones, and the
\* readiness 0.4 * 0.5 + 0.6 * 0.4667 = 0.48.
C19_Witness ==
    /\ Generated
    /\ last.fault = "none"
    /\ Cardinality(NumericSamples(last.user, "SleepScore", 24 * 7)) = 3
    /\ \E i \in 1..Len(sensordata) :
         /\ sensordata[i].metricType = "SleepScore"
         /\ sensordata[i].value.t = "str"
         /\ \A j \in NumericSamples(last.user, "SleepScore", 24 * 7) : j < i
    /\ NumericSamples(last.user, "HR", 24 * 14) = {}
    /\ TheCall.nbi.readiness = 48

\* C20: when generate_plan has just stored a plan for a user and is called
\* again for that user, on the same day, with no read failing in either
\* call, no sample added and no status changed in between, the plan stored
\* for (user, today) has after the second call the items and the status it
\* had after the first.
C20_GenerateTwice ==
    [][(/\ last.op = "generate_plan" /\ last.fault = "none"
        /\ last'.op = "generate_plan" /\ last'.fault = "none"
        /\ last'.user = last.user
        /\ now' = now /\ sensordata' = sensordata) =>
         \A p \in FindPlan(plans, last.user, Today(now)) :
           \E q \in FindPlan(plans', last.user, Today(now)) :
              q.items = p.items /\ q.status = p.status
      ]_vars

\* C21: every stored plan has a status among Proposed, In Progress and
\* Completed and a list of exactly three items, a Workout, a Habit and a
\* Recovery item in this order, also when the document was first created by
\* a start or complete request for a (user, date) that had no plan.
C21_PlansWellFormed ==
    \A p \in plans :
       /\ p.status \in {"Proposed", "In Progress", "Completed"}
       /\ Len(p.items) = 3
       /\ <<p.items[1].type, p.items[2].type, p.items[3].type>>
            = <<"Workout", "Habit", "Recovery">>

\* The part of C21 about the status alone.
C21_StatusKnown ==
    \A p \in plans : p.status \in {"Proposed", "In Progress", "Completed"}

\* The stored plans with status Proposed carry no startedAt.
ProposedUnstarted(pl) ==
    \A p \in pl : p.status = "Proposed" => p.startedAt = NoTime

C22_ProposedUnstarted == ProposedUnstarted(plans)

====
